---- MODULE Spec2Model ----
(***************************************************************************)
(* Model of the lending program (programs/lending): the Bank and User      *)
(* ledgers, the SPL token accounts the handlers move tokens between, the    *)
(* price feed and the clock, and the five instruction handlers              *)
(* process_deposit, process_withdraw, process_borrow, process_repay and     *)
(* process_liquidate.                                                       *)
(*                                                                          *)
(* A handler runs as one Solana transaction: when it returns Err or         *)
(* panics, the runtime discards every account write and every CPI transfer  *)
(* of that transaction.  A handler is therefore an operator from the        *)
(* current accounts to an outcome (result + accounts), and the accounts     *)
(* are committed only when the result is OK.                                *)
(*                                                                          *)
(* u64 arithmetic is kept with its width, scaled down to U64_BITS bits so   *)
(* that the model checker can reach overflow: `+ - *` wrap or panic         *)
(* depending on the build's overflow-checks setting (overflow_checks),      *)
(* checked_mul(..).unwrap() and checked_div(..).unwrap() always panic.      *)
(***************************************************************************)
EXTENDS Integers, FiniteSets, Sequences, TLC

\* ---------------------------------------------------------------- bounds
\* Width of the modelled u64.
U64_BITS == 5
\* Largest amount argument a caller passes to a handler.
MaxAmount == 2
\* Tokens of each mint every wallet holds initially.
InitBalance == 2
\* Last value of the clock.
MaxTime == 1
\* Number of committed calls that write a Bank or User account.
MaxOps == 3

\* ------------------------------------------------------------- constants
MAXIMUM_AGE == 0

U64_MODULUS == 2 ^ U64_BITS
U64_MAX == U64_MODULUS - 1

USDC_MINT == "usdc_mint"
SOL_MINT == "sol_mint"
Mints == {USDC_MINT, SOL_MINT}
Signers == {"alice", "bob"}

SOL_USD_FEED_ID == "sol_usd"
USDC_USD_FEED_ID == "usdc_usd"
Feeds == {SOL_USD_FEED_ID, USDC_USD_FEED_ID}
\* Quotes the oracle publishes.
Prices == {1, 8}

Amounts == 0 .. MaxAmount

\* Results of a handler.
OK == "Ok"
OverBorrowableAmount == "OverBorrowableAmount"
OverRepay == "OverRepay"
NotUndercollateralized == "NotUndercollateralized"
PriceTooOld == "PriceTooOld"
InsufficientFunds == "InsufficientFunds"
\* Panics: an arithmetic overflow (or unwrap of a failed checked_mul), and a
\* division by zero (unwrap of a failed checked_div, or `/` with divisor 0).
Panic == "Panic"
DivideByZero == "DivideByZero"

VARIABLES
  bank,                 \* bank[mint]: the Bank account seeded by the mint
  user_account,         \* user_account[signer]: the User account seeded by the signer
  user_token_account,   \* user_token_account[signer][mint]: wallet balance
  bank_token_account,   \* bank_token_account[mint]: treasury balance
  price_update,         \* the PriceUpdateV2 account: quotes and publish_time
  clock,                \* Clock::get().unix_timestamp
  overflow_checks,      \* the build's overflow-checks setting
  pc,                   \* the client: "idle", or "returned" (holds a result)
  last,                 \* the transaction the client submitted: call and result
  pre,                  \* the accounts as they were when that call started
  nops                  \* committed calls that wrote a Bank or User account

vars == <<bank, user_account, user_token_account, bank_token_account,
          price_update, clock, overflow_checks, pc, last, pre, nops>>

\* ------------------------------------------------------------ u64 helpers
wrapping(x) == x % U64_MODULUS
in_range(x) == x >= 0 /\ x < U64_MODULUS
\* `a + b`, `a - b`, `a * b` on u64: panics when overflow-checks is on.
arith_panics(x) == overflow_checks /\ ~in_range(x)

Accounts == [bank |-> bank, user_account |-> user_account,
             user_token_account |-> user_token_account,
             bank_token_account |-> bank_token_account]

Outcome(r, b, u, w, t) ==
  [result |-> r, bank |-> b, user_account |-> u,
   user_token_account |-> w, bank_token_account |-> t]

\* Err / panic: the transaction is rolled back.
Fail(r) == Outcome(r, bank, user_account, user_token_account, bank_token_account)

\* ---------------------------------------------------------------- deposit
process_deposit(signer, mint, amount) ==
  LET user == user_account[signer]
      b0 == bank[mint]
      b1 == IF b0.total_deposits = 0
            THEN [b0 EXCEPT !.total_deposits = amount, !.total_deposit_shares = amount]
            ELSE b0
      deposit_ratio == amount \div b1.total_deposits
      users_shares == b1.total_deposit_shares * deposit_ratio
      is_usdc == (mint = user.usdc_address)
      new_amount == (IF is_usdc THEN user.deposited_usdc ELSE user.deposited_sol) + amount
      new_shares == (IF is_usdc THEN user.deposited_usdc_shares
                                ELSE user.deposited_sol_shares) + users_shares
      new_total == b1.total_deposits + amount
      new_total_shares == b1.total_deposit_shares + users_shares
      u1 == IF is_usdc
            THEN [user EXCEPT !.deposited_usdc = wrapping(new_amount),
                              !.deposited_usdc_shares = wrapping(new_shares),
                              !.last_updated = clock]
            ELSE [user EXCEPT !.deposited_sol = wrapping(new_amount),
                              !.deposited_sol_shares = wrapping(new_shares),
                              !.last_updated = clock]
      b2 == [b1 EXCEPT !.total_deposits = wrapping(new_total),
                       !.total_deposit_shares = wrapping(new_total_shares)]
  IN  IF user_token_account[signer][mint] < amount THEN Fail(InsufficientFunds)
      ELSE IF b1.total_deposits = 0 THEN Fail(DivideByZero)
      ELSE IF ~in_range(users_shares) THEN Fail(Panic)
      ELSE IF arith_panics(new_amount) \/ arith_panics(new_shares)
              \/ arith_panics(new_total) \/ arith_panics(new_total_shares)
           THEN Fail(Panic)
      ELSE Outcome(OK,
                   [bank EXCEPT ![mint] = b2],
                   [user_account EXCEPT ![signer] = u1],
                   [user_token_account EXCEPT ![signer][mint] = @ - amount],
                   [bank_token_account EXCEPT ![mint] = @ + amount])

\* --------------------------------------------------------------- withdraw
process_withdraw(signer, mint, amount) ==
  Outcome(OK, bank, user_account, user_token_account, bank_token_account)

\* ----------------------------------------------------------------- oracle
\* The age of the quote is not checked (get_price_unchecked).
price_unchecked == TRUE

\* price_update.get_price_no_older_than(&Clock::get()?, MAXIMUM_AGE, &feed_id)
price_is_fresh == price_update.publish_time + MAXIMUM_AGE >= clock
get_price_no_older_than(feed_id) == price_update.price[feed_id]

\* ----------------------------------------------------------------- borrow
\* E.powf(x) as f32, in millionths, for the exponents the table covers.
EXP_MICRO(x) ==
  CASE x = 0 -> 1000000
    [] x = 1 -> 2718281
    [] x = 2 -> 7389055
    [] x = 3 -> 20085535
    [] x = 4 -> 54598144

\* (deposited as f64 * E.powf(interest_rate as f32 * time_elapsed as f32) as f64) as u64
\* The float-to-u64 cast saturates; beyond the table E^x exceeds U64_MAX.
calculate_accrued_interest(deposited, interest_rate, last_update) ==
  LET time_elapsed == clock - last_update
      x == interest_rate * time_elapsed
  IN  IF deposited = 0 THEN 0
      ELSE IF x > 4 THEN U64_MAX
      ELSE LET new_value == (deposited * EXP_MICRO(x)) \div 1000000
           IN  IF new_value > U64_MAX THEN U64_MAX ELSE new_value

process_borrow(signer, mint, amount) ==
  LET user == user_account[signer]
      b0 == bank[mint]
      is_usdc == (mint = user.usdc_address)
      price == get_price_no_older_than(IF is_usdc THEN SOL_USD_FEED_ID
                                                  ELSE USDC_USD_FEED_ID)
      accrued_interest ==
        calculate_accrued_interest(user.deposited_sol, b0.interest_rate, user.last_updated)
      with_interest == user.deposited_sol + accrued_interest
      collateral_raw == IF is_usdc THEN price * wrapping(with_interest)
                                   ELSE price * user.deposited_usdc
      total_collateral == wrapping(collateral_raw)
      borrowable_raw == total_collateral * b0.liquidation_threshold
      borrowable_amount == wrapping(borrowable_raw)
      b1 == IF b0.total_borrowed = 0
            THEN [b0 EXCEPT !.total_borrowed = amount, !.total_borrowed_shares = amount]
            ELSE b0
      borrow_ratio == amount \div b1.total_borrowed
      users_shares == b1.total_borrowed_shares * borrow_ratio
      new_total == b1.total_borrowed + amount
      new_total_shares == b1.total_borrowed_shares + users_shares
      new_amount == (IF is_usdc THEN user.borrowed_usdc ELSE user.borrowed_sol) + amount
      new_shares == (IF is_usdc THEN user.deposited_usdc_shares
                                ELSE user.deposited_sol_shares) + users_shares
      b2 == [b1 EXCEPT !.total_borrowed = wrapping(new_total),
                       !.total_borrowed_shares = wrapping(new_total_shares)]
      u1 == IF is_usdc
            THEN [user EXCEPT !.borrowed_usdc = wrapping(new_amount),
                              !.deposited_usdc_shares = wrapping(new_shares)]
            ELSE [user EXCEPT !.borrowed_sol = wrapping(new_amount),
                              !.deposited_sol_shares = wrapping(new_shares)]
  IN  IF ~price_is_fresh THEN Fail(PriceTooOld)
      ELSE IF (is_usdc /\ arith_panics(with_interest)) \/ arith_panics(collateral_raw)
              \/ arith_panics(borrowable_raw)
           THEN Fail(Panic)
      ELSE IF borrowable_amount < amount THEN Fail(OverBorrowableAmount)
      ELSE IF bank_token_account[mint] < amount THEN Fail(InsufficientFunds)
      ELSE IF b1.total_borrowed = 0 THEN Fail(DivideByZero)
      ELSE IF ~in_range(users_shares) THEN Fail(Panic)
      ELSE IF arith_panics(new_total) \/ arith_panics(new_total_shares)
              \/ arith_panics(new_amount) \/ arith_panics(new_shares)
           THEN Fail(Panic)
      ELSE Outcome(OK,
                   [bank EXCEPT ![mint] = b2],
                   [user_account EXCEPT ![signer] = u1],
                   [user_token_account EXCEPT ![signer][mint] = @ + amount],
                   [bank_token_account EXCEPT ![mint] = @ - amount])

\* ------------------------------------------------------------------ repay
\* process_repay whose failures after transfer_checked keep the transfer.
process_repay_keeps_transfer(signer, mint, amount) ==
  LET user == user_account[signer]
      b0 == bank[mint]
      borrowed_asset == IF mint = user.user_address THEN user.borrowed_usdc
                                                    ELSE user.borrowed_sol
      borrowed_ratio == amount \div b0.total_borrowed
      users_shares == b0.total_borrowed_shares * borrowed_ratio
      is_usdc == (mint = user.usdc_address)
      new_amount == (IF is_usdc THEN user.borrowed_usdc ELSE user.borrowed_sol) - amount
      new_shares == (IF is_usdc THEN user.borrowed_usdc_shares
                                ELSE user.borrowed_sol_shares) - users_shares
      new_total == b0.total_borrowed - amount
      new_total_shares == b0.total_borrowed_shares - users_shares
      u1 == IF is_usdc
            THEN [user EXCEPT !.borrowed_usdc = wrapping(new_amount),
                              !.borrowed_usdc_shares = wrapping(new_shares)]
            ELSE [user EXCEPT !.borrowed_sol = wrapping(new_amount),
                              !.borrowed_sol_shares = wrapping(new_shares)]
      b1 == [b0 EXCEPT !.total_borrowed = wrapping(new_total),
                       !.total_borrowed_shares = wrapping(new_total_shares)]
      w1 == [user_token_account EXCEPT ![signer][mint] = @ - amount]
      t1 == [bank_token_account EXCEPT ![mint] = @ + amount]
  IN  IF amount > borrowed_asset THEN Fail(OverRepay)
      ELSE IF user_token_account[signer][mint] < amount THEN Fail(InsufficientFunds)
      ELSE IF b0.total_borrowed = 0 THEN Outcome(DivideByZero, bank, user_account, w1, t1)
      ELSE IF ~in_range(users_shares) THEN Outcome(Panic, bank, user_account, w1, t1)
      ELSE IF arith_panics(new_amount) \/ arith_panics(new_shares)
              \/ arith_panics(new_total) \/ arith_panics(new_total_shares)
           THEN Outcome(Panic, bank, user_account, w1, t1)
      ELSE Outcome(OK,
                   [bank EXCEPT ![mint] = b1],
                   [user_account EXCEPT ![signer] = u1], w1, t1)

process_repay(signer, mint, amount) ==
  LET user == user_account[signer]
      b0 == bank[mint]
      borrowed_asset == IF mint = user.user_address THEN user.borrowed_usdc
                                                    ELSE user.borrowed_sol
      borrowed_ratio == amount \div b0.total_borrowed
      users_shares == b0.total_borrowed_shares * borrowed_ratio
      is_usdc == (mint = user.usdc_address)
      new_amount == (IF is_usdc THEN user.borrowed_usdc ELSE user.borrowed_sol) - amount
      new_shares == (IF is_usdc THEN user.borrowed_usdc_shares
                                ELSE user.borrowed_sol_shares) - users_shares
      new_total == b0.total_borrowed - amount
      new_total_shares == b0.total_borrowed_shares - users_shares
      u1 == IF is_usdc
            THEN [user EXCEPT !.borrowed_usdc = wrapping(new_amount),
                              !.borrowed_usdc_shares = wrapping(new_shares)]
            ELSE [user EXCEPT !.borrowed_sol = wrapping(new_amount),
                              !.borrowed_sol_shares = wrapping(new_shares)]
      b1 == [b0 EXCEPT !.total_borrowed = wrapping(new_total),
                       !.total_borrowed_shares = wrapping(new_total_shares)]
  IN  IF amount > borrowed_asset THEN Fail(OverRepay)
      ELSE IF user_token_account[signer][mint] < amount THEN Fail(InsufficientFunds)
      ELSE IF b0.total_borrowed = 0 THEN Fail(DivideByZero)
      ELSE IF ~in_range(users_shares) THEN Fail(Panic)
      ELSE IF arith_panics(new_amount) \/ arith_panics(new_shares)
              \/ arith_panics(new_total) \/ arith_panics(new_total_shares)
           THEN Fail(Panic)
      ELSE Outcome(OK,
                   [bank EXCEPT ![mint] = b1],
                   [user_account EXCEPT ![signer] = u1],
                   [user_token_account EXCEPT ![signer][mint] = @ - amount],
                   [bank_token_account EXCEPT ![mint] = @ + amount])

\* -------------------------------------------------------------- liquidate
\* let total_borrowed = (sol_price.price as u64 * user.borrowed_sol)
\*     + (usdc_price.price as u64 * user.borrowed_usdc);
liquidate_total_borrowed(user) ==
  wrapping(wrapping(get_price_no_older_than(SOL_USD_FEED_ID) * user.borrowed_sol)
           + wrapping(get_price_no_older_than(USDC_USD_FEED_ID) * user.borrowed_usdc))

\* let liquidation_amount = total_borrowed * collateral_bank.liquidation_close_factor;
liquidate_liquidation_amount(user, collateral_bank) ==
  wrapping(liquidate_total_borrowed(user) * collateral_bank.liquidation_close_factor)

\* The User account is seeded by the liquidator: the position evaluated is
\* the liquidator's own.
process_liquidate(liquidator, collateral_mint, borrowed_mint) ==
  LET user == user_account[liquidator]
      collateral_bank == bank[collateral_mint]
      sol_price == get_price_no_older_than(SOL_USD_FEED_ID)
      usdc_price == get_price_no_older_than(USDC_USD_FEED_ID)
      sol_collateral == sol_price * user.deposited_sol
      usdc_collateral == usdc_price * user.deposited_usdc
      collateral_raw == wrapping(sol_collateral) + wrapping(usdc_collateral)
      total_collateral == wrapping(collateral_raw)
      sol_borrowed == sol_price * user.borrowed_sol
      usdc_borrowed == usdc_price * user.borrowed_usdc
      borrowed_raw == wrapping(sol_borrowed) + wrapping(usdc_borrowed)
      total_borrowed == liquidate_total_borrowed(user)
      adjusted_raw == total_collateral * collateral_bank.liquidation_threshold
      health_factor == wrapping(adjusted_raw) \div total_borrowed
      amount_raw == total_borrowed * collateral_bank.liquidation_close_factor
      liquidation_amount == liquidate_liquidation_amount(user, collateral_bank)
      bonus_mul == liquidation_amount * collateral_bank.liquidation_bonus
      bonus_raw == wrapping(bonus_mul) + liquidation_amount
      liquidation_bonus == wrapping(bonus_raw)
      w1 == [user_token_account EXCEPT ![liquidator][borrowed_mint] = @ - liquidation_amount]
      t1 == [bank_token_account EXCEPT ![borrowed_mint] = @ + liquidation_amount]
      w2 == [w1 EXCEPT ![liquidator][collateral_mint] = @ + liquidation_bonus]
      t2 == [t1 EXCEPT ![collateral_mint] = @ - liquidation_bonus]
  IN  IF ~price_is_fresh THEN Fail(PriceTooOld)
      ELSE IF arith_panics(sol_collateral) \/ arith_panics(usdc_collateral)
              \/ arith_panics(collateral_raw) \/ arith_panics(sol_borrowed)
              \/ arith_panics(usdc_borrowed) \/ arith_panics(borrowed_raw)
              \/ arith_panics(adjusted_raw)
           THEN Fail(Panic)
      ELSE IF total_borrowed = 0 THEN Fail(DivideByZero)
      ELSE IF health_factor >= 1 THEN Fail(NotUndercollateralized)
      ELSE IF arith_panics(amount_raw) THEN Fail(Panic)
      ELSE IF user_token_account[liquidator][borrowed_mint] < liquidation_amount
           THEN Fail(InsufficientFunds)
      ELSE IF arith_panics(bonus_mul) \/ arith_panics(bonus_raw) THEN Fail(Panic)
      ELSE IF t1[collateral_mint] < liquidation_bonus THEN Fail(InsufficientFunds)
      ELSE Outcome(OK, bank, user_account, w2, t2)

\* ------------------------------------------------------------ transaction
Call(op, signer, mint, mint2, amount) ==
  [op |-> op, signer |-> signer, mint |-> mint, mint2 |-> mint2,
   amount |-> amount, result |-> OK]

\* Runs one handler as a transaction and records the call; at most max_ops
\* transactions that write a Bank or User account are explored.
Commit(call, out, max_ops) ==
  /\ pc' = "returned"
  /\ IF <<out.bank, out.user_account>> # <<bank, user_account>>
     THEN nops < max_ops /\ nops' = nops + 1
     ELSE nops' = nops
  /\ bank' = out.bank
  /\ user_account' = out.user_account
  /\ user_token_account' = out.user_token_account
  /\ bank_token_account' = out.bank_token_account
  /\ last' = [call EXCEPT !.result = out.result]
  /\ pre' = Accounts
  /\ UNCHANGED <<price_update, clock, overflow_checks>>

Transaction(call, out) == Commit(call, out, MaxOps)

NoCall == Call("none", "alice", USDC_MINT, USDC_MINT, 0)

Deposit ==
  \E s \in Signers, m \in Mints, a \in Amounts :
     /\ pc = "idle"
     /\ Transaction(Call("deposit", s, m, m, a), process_deposit(s, m, a))

Withdraw ==
  \E s \in Signers, m \in Mints, a \in Amounts :
     /\ pc = "idle"
     /\ Transaction(Call("withdraw", s, m, m, a), process_withdraw(s, m, a))

Borrow ==
  \E s \in Signers, m \in Mints, a \in Amounts :
     /\ pc = "idle"
     /\ Transaction(Call("borrow", s, m, m, a), process_borrow(s, m, a))

Repay ==
  \E s \in Signers, m \in Mints, a \in Amounts :
     /\ pc = "idle"
     /\ Transaction(Call("repay", s, m, m, a), process_repay(s, m, a))

Liquidate ==
  \E s \in Signers, cm \in Mints, bm \in Mints :
     /\ pc = "idle"
     /\ Transaction(Call("liquidate", s, cm, bm, 0), process_liquidate(s, cm, bm))

\* ------------------------------------------------------------ environment
\* The client takes the result of its transaction and is ready for the next.
Return ==
  /\ pc = "returned"
  /\ pc' = "idle"
  /\ last' = NoCall
  /\ pre' = Accounts
  /\ UNCHANGED <<bank, user_account, user_token_account, bank_token_account,
                 price_update, clock, overflow_checks, nops>>

EnvStep ==
  /\ pc = "idle"
  /\ UNCHANGED <<bank, user_account, user_token_account, bank_token_account,
                 overflow_checks, pc, last, pre, nops>>

\* The clock advances.
Tick ==
  /\ clock < MaxTime
  /\ clock' = clock + 1
  /\ UNCHANGED price_update
  /\ EnvStep

\* The oracle posts a price update.
PostPriceUpdate ==
  /\ \E sol \in Prices, usdc \in Prices :
        price_update' = [price |-> (SOL_USD_FEED_ID :> sol) @@ (USDC_USD_FEED_ID :> usdc),
                         publish_time |-> clock]
  /\ UNCHANGED clock
  /\ EnvStep

\* ------------------------------------------------------------------- init
\* Risk parameters a bank is initialised with.
Risk(t, cf, bn, r) ==
  [liquidation_threshold |-> t, liquidation_close_factor |-> cf,
   liquidation_bonus |-> bn, interest_rate |-> r]

\* The deployments explored: the parameters of the USDC and of the SOL bank.
Deployments ==
  { [usdc |-> Risk(1, 1, 0, 0), sol |-> Risk(1, 1, 0, 0)],
    [usdc |-> Risk(1, 2, 0, 1), sol |-> Risk(1, 2, 0, 1)],
    [usdc |-> Risk(1, 1, 0, 1), sol |-> Risk(0, 1, 1, 0)] }

NewBank(risk) ==
  [total_deposits |-> 0, total_deposit_shares |-> 0,
   total_borrowed |-> 0, total_borrowed_shares |-> 0,
   liquidation_threshold |-> risk.liquidation_threshold,
   liquidation_close_factor |-> risk.liquidation_close_factor,
   liquidation_bonus |-> risk.liquidation_bonus,
   interest_rate |-> risk.interest_rate]

NewUser(signer) ==
  [user_address |-> signer, usdc_address |-> USDC_MINT,
   deposited_sol |-> 0, deposited_sol_shares |-> 0,
   borrowed_sol |-> 0, borrowed_sol_shares |-> 0,
   deposited_usdc |-> 0, deposited_usdc_shares |-> 0,
   borrowed_usdc |-> 0, borrowed_usdc_shares |-> 0,
   last_updated |-> 0]

Init ==
  /\ \E d \in Deployments :
        bank = (USDC_MINT :> NewBank(d.usdc)) @@ (SOL_MINT :> NewBank(d.sol))
  /\ user_account = [s \in Signers |-> NewUser(s)]
  /\ user_token_account = [s \in Signers |-> [m \in Mints |-> InitBalance]]
  /\ bank_token_account = [m \in Mints |-> 0]
  /\ price_update = [price |-> [f \in Feeds |-> 1], publish_time |-> 0]
  /\ clock = 0
  /\ overflow_checks \in BOOLEAN
  /\ pc = "idle"
  /\ last = NoCall
  /\ pre = Accounts
  /\ nops = 0

Next ==
  \/ Deposit
  \/ Withdraw
  \/ Borrow
  \/ Repay
  \/ Liquidate
  \/ Return
  \/ Tick
  \/ PostPriceUpdate

Spec == Init /\ [][Next]_vars

\* Deposits and withdrawals only (with the environment).
NextDepositWithdraw ==
  \/ Deposit
  \/ Withdraw
  \/ Return
  \/ Tick
  \/ PostPriceUpdate

DepositWithdrawSpec == Init /\ [][NextDepositWithdraw]_vars

\* One borrower (the other signer holds no tokens and submits nothing), with
\* a larger wallet and longer histories: deposits, borrows and repayments of
\* positive amounts, and the oracle.
SoloBalance == 3
SoloMaxOps == 5
SoloSigner == "alice"
SoloAmounts == 1 .. SoloBalance

SoloDeposit ==
  \E m \in Mints, a \in SoloAmounts :
     /\ pc = "idle"
     /\ Commit(Call("deposit", SoloSigner, m, m, a),
               process_deposit(SoloSigner, m, a), SoloMaxOps)

SoloBorrow ==
  \E m \in Mints, a \in SoloAmounts :
     /\ pc = "idle"
     /\ Commit(Call("borrow", SoloSigner, m, m, a),
               process_borrow(SoloSigner, m, a), SoloMaxOps)

SoloRepay ==
  \E m \in Mints, a \in SoloAmounts :
     /\ pc = "idle"
     /\ Commit(Call("repay", SoloSigner, m, m, a),
               process_repay(SoloSigner, m, a), SoloMaxOps)

InitSolo ==
  /\ bank = [m \in Mints |-> NewBank(Risk(1, 1, 0, 0))]
  /\ user_account = [s \in Signers |-> NewUser(s)]
  /\ user_token_account =
       [s \in Signers |-> [m \in Mints |-> IF s = SoloSigner THEN SoloBalance ELSE 0]]
  /\ bank_token_account = [m \in Mints |-> 0]
  /\ price_update = [price |-> [f \in Feeds |-> 1], publish_time |-> 0]
  /\ clock = 0
  /\ overflow_checks \in BOOLEAN
  /\ pc = "idle"
  /\ last = NoCall
  /\ pre = Accounts
  /\ nops = 0

NextSolo ==
  \/ SoloDeposit
  \/ SoloBorrow
  \/ SoloRepay
  \/ Return
  \/ PostPriceUpdate

SoloSpec == InitSolo /\ [][NextSolo]_vars

\* ================================================================= claims
\* The client holds the result of a call of the handler op.
Called(op) == pc = "returned" /\ last.op = op
Succeeded(op) == Called(op) /\ last.result = OK
Unchanged == Accounts = pre

\* The leg of a position for a mint.
deposited_amount(user, mint) ==
  IF mint = USDC_MINT THEN user.deposited_usdc ELSE user.deposited_sol
deposited_shares(user, mint) ==
  IF mint = USDC_MINT THEN user.deposited_usdc_shares ELSE user.deposited_sol_shares
borrowed_amount(user, mint) ==
  IF mint = USDC_MINT THEN user.borrowed_usdc ELSE user.borrowed_sol
borrowed_shares(user, mint) ==
  IF mint = USDC_MINT THEN user.borrowed_usdc_shares ELSE user.borrowed_sol_shares

\* Values at the current oracle prices, as unbounded integers.
sol_quote == price_update.price[SOL_USD_FEED_ID]
usdc_quote == price_update.price[USDC_USD_FEED_ID]
CollateralValue(user) == sol_quote * user.deposited_sol + usdc_quote * user.deposited_usdc
BorrowedValue(user) == sol_quote * user.borrowed_sol + usdc_quote * user.borrowed_usdc

RECURSIVE SumOver(_, _)
SumOver(S, f) ==
  IF S = {} THEN 0
  ELSE LET x == CHOOSE y \in S : TRUE IN f[x] + SumOver(S \ {x}, f)

\* C1. Share conservation: in every state reached by deposits and
\* withdrawals, the deposited shares of all positions for a mint add up to
\* the bank's total_deposit_shares.
C1_ShareConservation ==
  \A m \in Mints :
     SumOver(Signers, [s \in Signers |-> deposited_shares(user_account[s], m)])
       = bank[m].total_deposit_shares

\* C2. Bootstrap: a deposit of a > 0 into a bank with total_deposits = 0
\* mints a shares and leaves bank and position at exactly a.
C2_BootstrapCorrect ==
  (Succeeded("deposit") /\ last.amount > 0
     /\ pre.bank[last.mint].total_deposits = 0)
  => /\ bank[last.mint].total_deposits = last.amount
     /\ bank[last.mint].total_deposit_shares = last.amount
     /\ deposited_amount(user_account[last.signer], last.mint) = last.amount
     /\ deposited_shares(user_account[last.signer], last.mint) = last.amount

\* The collateral value of section 4.3: both legs at the oracle price, the SOL
\* leg with accrued interest when USDC is borrowed.
C3_CollateralValue(user, mint) ==
  LET sol_leg == IF mint = USDC_MINT
                 THEN calculate_accrued_interest(user.deposited_sol,
                                                 bank[mint].interest_rate,
                                                 user.last_updated)
                 ELSE user.deposited_sol
  IN  sol_quote * sol_leg + usdc_quote * user.deposited_usdc

C3_Capacity ==
  C3_CollateralValue(pre.user_account[last.signer], last.mint)
    * bank[last.mint].liquidation_threshold

\* C3. No over-borrow: with fresh quotes and a treasury that holds the
\* amount, a borrow of more than C*t fails with OverBorrowableAmount and a
\* borrow of exactly C*t (> 0) succeeds.
C3_NoOverBorrow ==
  (Called("borrow") /\ price_is_fresh /\ last.amount > 0
     /\ pre.bank_token_account[last.mint] >= last.amount)
  => /\ last.amount > C3_Capacity => last.result = OverBorrowableAmount
     /\ last.amount = C3_Capacity => last.result = OK

\* C4. No over-repay: a repay of more than the position's borrowed amount of
\* the repaid mint fails with OverRepay.
C4_NoOverRepay ==
  (Called("repay")
     /\ last.amount > borrowed_amount(pre.user_account[last.signer], last.mint))
  => last.result = OverRepay

\* C5. Liquidation reduces debt: a liquidation that succeeds leaves the
\* position's borrowed value, at the same prices, strictly smaller.
C5_LiquidationReducesDebt ==
  Succeeded("liquidate")
  => BorrowedValue(user_account[last.signer])
       < BorrowedValue(pre.user_account[last.signer])

\* health factor >= 1, with the threshold of the collateral bank
C6_Healthy(user, collateral_mint) ==
  CollateralValue(user) * bank[collateral_mint].liquidation_threshold
    >= BorrowedValue(user)

\* C6. Liquidation gating: with fresh quotes, a liquidation of a position
\* with debt and health factor >= 1 fails with NotUndercollateralized and
\* changes no account.
C6_LiquidationGating ==
  (Called("liquidate") /\ price_is_fresh
     /\ BorrowedValue(pre.user_account[last.signer]) > 0
     /\ C6_Healthy(pre.user_account[last.signer], last.mint))
  => last.result = NotUndercollateralized /\ Unchanged

\* C7. Zero debt is healthy: with fresh quotes, a liquidation of a position
\* without debt fails with NotUndercollateralized (no division by zero, no
\* transfer).
C7_ZeroDebtHealthy ==
  (Called("liquidate") /\ price_is_fresh
     /\ BorrowedValue(pre.user_account[last.signer]) = 0)
  => last.result = NotUndercollateralized /\ Unchanged

\* C8. Liquidation bound: in a liquidation that succeeds, the liquidation
\* amount is at most the position's borrowed value, and it is borrowed value *
\* close factor when that product does not exceed the borrowed value.
C8_LiquidationBound ==
  LET user == pre.user_account[last.signer]
      amount == liquidate_liquidation_amount(user, bank[last.mint])
      product == BorrowedValue(user) * bank[last.mint].liquidation_close_factor
  IN  Succeeded("liquidate")
      => /\ amount <= BorrowedValue(user)
         /\ product <= BorrowedValue(user) => amount = product

\* C9. Withdraw guard: a withdrawal of more than the position's deposited
\* amount of the mint does not succeed.
C9_WithdrawGuard ==
  (Called("withdraw")
     /\ last.amount > deposited_amount(pre.user_account[last.signer], last.mint))
  => last.result # OK

\* C10. Withdraw effect: a successful withdrawal of 0 < amount <= deposited
\* takes amount off the bank's total_deposits and the position's deposited
\* amount, burns floor(amount * total_deposit_shares / total_deposits) shares
\* of both, and moves amount from the treasury to the wallet.
C10_WithdrawEffect ==
  LET s == last.signer
      m == last.mint
      a == last.amount
      burn == (a * pre.bank[m].total_deposit_shares) \div pre.bank[m].total_deposits
  IN  (Succeeded("withdraw") /\ a > 0
         /\ a <= deposited_amount(pre.user_account[s], m)
         /\ pre.bank[m].total_deposits > 0)
      => /\ bank[m].total_deposits = pre.bank[m].total_deposits - a
         /\ deposited_amount(user_account[s], m)
              = deposited_amount(pre.user_account[s], m) - a
         /\ bank[m].total_deposit_shares = pre.bank[m].total_deposit_shares - burn
         /\ deposited_shares(user_account[s], m)
              = deposited_shares(pre.user_account[s], m) - burn
         /\ bank_token_account[m] = pre.bank_token_account[m] - a
         /\ user_token_account[s][m] = pre.user_token_account[s][m] + a

C12_NoDivisionByZero ==
  (pc = "returned" /\ last.op \in {"deposit", "borrow", "repay", "liquidate"})
  => last.result # DivideByZero

\* C13. Pool invariant: in every reachable state, a bank's
\* total_deposit_shares is 0 exactly when its total_deposits is 0, and its
\* total_borrowed_shares is 0 exactly when its total_borrowed is 0.
C13_PoolInvariant ==
  \A m \in Mints :
     /\ (bank[m].total_deposit_shares = 0) <=> (bank[m].total_deposits = 0)
     /\ (bank[m].total_borrowed_shares = 0) <=> (bank[m].total_borrowed = 0)

\* C14. Position invariant: in every reachable state, a position's deposited
\* shares of a mint are at most the bank's total_deposit_shares and its
\* borrowed shares at most the bank's total_borrowed_shares.
C14_PositionInvariant ==
  \A s \in Signers, m \in Mints :
     /\ deposited_shares(user_account[s], m) <= bank[m].total_deposit_shares
     /\ borrowed_shares(user_account[s], m) <= bank[m].total_borrowed_shares

\* C15. Deposit mint formula: a successful deposit into a bank with
\* total_deposits > 0 mints floor(amount * total_deposit_shares /
\* total_deposits) shares from the totals before the call, and adds amount to
\* total_deposits and the minted shares to total_deposit_shares.
C15_DepositMint ==
  LET s == last.signer
      m == last.mint
      a == last.amount
      minted == (a * pre.bank[m].total_deposit_shares) \div pre.bank[m].total_deposits
  IN  (Succeeded("deposit") /\ pre.bank[m].total_deposits > 0)
      => /\ deposited_shares(user_account[s], m)
              = deposited_shares(pre.user_account[s], m) + minted
         /\ bank[m].total_deposits = pre.bank[m].total_deposits + a
         /\ bank[m].total_deposit_shares = pre.bank[m].total_deposit_shares + minted

\* C16. Repay burn formula: a successful repay burns floor(amount *
\* total_borrowed_shares / total_borrowed) shares from the totals before the
\* call, and takes amount and the burned shares off the bank's borrowed totals
\* and off the position's leg for the repaid mint.
C16_RepayBurn ==
  LET s == last.signer
      m == last.mint
      a == last.amount
      burned == (a * pre.bank[m].total_borrowed_shares) \div pre.bank[m].total_borrowed
  IN  Succeeded("repay")
      => /\ bank[m].total_borrowed = pre.bank[m].total_borrowed - a
         /\ bank[m].total_borrowed_shares = pre.bank[m].total_borrowed_shares - burned
         /\ borrowed_amount(user_account[s], m)
              = borrowed_amount(pre.user_account[s], m) - a
         /\ borrowed_shares(user_account[s], m)
              = borrowed_shares(pre.user_account[s], m) - burned

\* C17. Full repay: a repay of exactly the position's borrowed amount b > 0 of
\* a mint, by a signer whose wallet holds b, succeeds and leaves the leg's
\* borrowed amount and borrowed shares at 0.
C17_FullRepay ==
  LET s == last.signer
      m == last.mint
  IN  (Called("repay") /\ last.amount > 0
         /\ last.amount = borrowed_amount(pre.user_account[s], m)
         /\ pre.user_token_account[s][m] >= last.amount)
      => /\ last.result = OK
         /\ borrowed_amount(user_account[s], m) = 0
         /\ borrowed_shares(user_account[s], m) = 0

\* The quote is older than the maximum age.
C18_Stale == clock - price_update.publish_time > MAXIMUM_AGE

\* C18. Stale price abort: a borrow or a liquidation submitted when the quote
\* is older than the maximum age fails with the stale-price error and changes
\* no account.
C18_StalePriceAbort ==
  ((Called("borrow") \/ Called("liquidate")) /\ C18_Stale)
  => last.result = PriceTooOld /\ Unchanged

\* A borrow that the treasury and the position's deposit of the other mint
\* cover was refused for its stale quote.
C18_Witness ==
  /\ Called("borrow") /\ C18_Stale /\ last.amount > 0
  /\ last.result = PriceTooOld
  /\ bank_token_account[last.mint] >= last.amount
  /\ \E x \in Mints \ {last.mint} :
        deposited_amount(user_account[last.signer], x) >= last.amount

\* The typed error the handlers are to return on overflow.
ArithmeticOverflow == "ArithmeticOverflow"

\* A value computed by the call exceeds the u64 range: the collateral of a
\* borrow of a positive amount, or the collateral or borrowed value of a
\* liquidation.
C19_ValueOverflows ==
  LET user == pre.user_account[last.signer]
      sol_leg == user.deposited_sol
                   + calculate_accrued_interest(user.deposited_sol,
                                                bank[last.mint].interest_rate,
                                                user.last_updated)
  IN  \/ /\ Called("borrow") /\ last.amount > 0
         /\ IF last.mint = USDC_MINT THEN sol_quote * sol_leg > U64_MAX
                                     ELSE usdc_quote * user.deposited_usdc > U64_MAX
      \/ /\ Called("liquidate")
         /\ (CollateralValue(user) > U64_MAX \/ BorrowedValue(user) > U64_MAX)

\* C19. Checked overflow: no handler panics on an overflow, and a borrow or
\* liquidation whose value computation exceeds the u64 range fails with
\* ArithmeticOverflow.
C19_CheckedOverflow ==
  /\ pc = "returned" => last.result # Panic
  /\ (~C18_Stale /\ C19_ValueOverflows) => last.result = ArithmeticOverflow

\* C20. Borrow touches only the borrowed side: a successful borrow adds amount
\* and the minted shares (amount, on an empty bank) to the bank's borrowed
\* totals and to the position's borrowed leg, and leaves the position's
\* deposited amounts and shares and the bank's deposit totals unchanged.
C20_BorrowFrame ==
  LET s == last.signer
      m == last.mint
      a == last.amount
      b0 == pre.bank[m]
      u0 == pre.user_account[s]
      minted == IF b0.total_borrowed = 0 THEN a
                ELSE (a * b0.total_borrowed_shares) \div b0.total_borrowed
  IN  (Succeeded("borrow") /\ a > 0)
      => /\ bank[m].total_borrowed = b0.total_borrowed + a
         /\ bank[m].total_borrowed_shares = b0.total_borrowed_shares + minted
         /\ borrowed_amount(user_account[s], m) = borrowed_amount(u0, m) + a
         /\ borrowed_shares(user_account[s], m) = borrowed_shares(u0, m) + minted
         /\ \A x \in Mints :
               /\ deposited_amount(user_account[s], x) = deposited_amount(u0, x)
               /\ deposited_shares(user_account[s], x) = deposited_shares(u0, x)
         /\ bank[m].total_deposits = b0.total_deposits
         /\ bank[m].total_deposit_shares = b0.total_deposit_shares

\* What a liquidation of the position pays: liquidation_amount of the borrowed
\* mint to the borrowed bank, and liquidation_amount * liquidation_bonus +
\* liquidation_amount of the collateral mint to the liquidator.
C21_Repaid == liquidate_liquidation_amount(pre.user_account[last.signer], bank[last.mint])
C21_Seized == C21_Repaid * bank[last.mint].liquidation_bonus + C21_Repaid

\* C21. Liquidation seizes collateral on the ledger: a successful liquidation
\* pays liquidation_amount * liquidation_bonus + liquidation_amount of the
\* collateral mint to the liquidator, and takes that amount off the
\* position's deposited amount and off the collateral bank's total_deposits,
\* reducing the deposited shares of both.
C21_LiquidationSeizes ==
  LET s == last.signer
      cm == last.mint
      u0 == pre.user_account[s]
      net == C21_Seized - (IF last.mint2 = cm THEN C21_Repaid ELSE 0)
  IN  Succeeded("liquidate")
      => /\ user_token_account[s][cm] = pre.user_token_account[s][cm] + net
         /\ deposited_amount(user_account[s], cm) = deposited_amount(u0, cm) - C21_Seized
         /\ bank[cm].total_deposits = pre.bank[cm].total_deposits - C21_Seized
         /\ deposited_shares(user_account[s], cm) < deposited_shares(u0, cm)
         /\ bank[cm].total_deposit_shares < pre.bank[cm].total_deposit_shares

\* C22. Borrow keeps positions healthy: a successful borrow with no time
\* elapsed since the position was updated leaves the position's borrowed
\* value, at the quotes it was evaluated with, at most its collateral value *
\* liquidation_threshold.
C22_BorrowKeepsHealthy ==
  LET s == last.signer
  IN  (Succeeded("borrow") /\ last.amount > 0
         /\ clock = pre.user_account[s].last_updated)
      => BorrowedValue(user_account[s])
           <= CollateralValue(user_account[s]) * bank[last.mint].liquidation_threshold

\* C23. Bounded seizure: the collateral that liquidations of a position pay
\* out never exceeds what the position has deposited of it, and only finitely
\* many of them succeed: already one successful liquidation pays out at most
\* the position's deposited amount of the collateral mint, and it changes an
\* account (the same call would otherwise succeed again, without end).
C23_BoundedSeizure ==
  Succeeded("liquidate")
  => /\ C21_Seized <= deposited_amount(pre.user_account[last.signer], last.mint)
     /\ ~Unchanged

\* C24. Pool solvency: in every reachable state, a bank's treasury balance is
\* total_deposits - total_borrowed, and total_deposits is the sum of the
\* positions' deposited amounts of the mint.
C24_PoolSolvency ==
  \A m \in Mints :
     /\ bank_token_account[m] = bank[m].total_deposits - bank[m].total_borrowed
     /\ bank[m].total_deposits
          = SumOver(Signers, [s \in Signers |-> deposited_amount(user_account[s], m)])

====
